---- MODULE Spec2Model ----
(***************************************************************************)
(* Model of metadata/forms.py: the document type <-> metadata type         *)
(* relationship form (construction and save against the relationship      *)
(* table), the per-document metadata value form (construction and          *)
(* validation) and the bulk add form (construction and validation).        *)
(***************************************************************************)
EXTENDS Integers, Sequences, FiniteSets, TLC

(* ------------------------------ bounds -------------------------------- *)
NumMetadataTypes == 2
NumForms == 2

\* A relationship form reads and writes the rows of its own pair only, so
\* one document type with several metadata types gives all the pairs needed.
DocumentTypes == {"dt"}
MetadataTypes == 1..NumMetadataTypes
Pairs == DocumentTypes \X MetadataTypes
Forms == 1..NumForms

VARIABLES
    store,   \* the relationship table
    forms,   \* the relationship forms constructed so far
    last,    \* what the last relationship form operation did
    mform,   \* the metadata value form constructed last
    mlast,   \* what the last validation of the metadata value form did
    aform    \* the bulk add form constructed last and its last validation

vars == <<store, forms, last, mform, mlast, aform>>

(* ===================================================================== *)
(* Relationship form                                                     *)
(* ===================================================================== *)
RELATIONSHIP_TYPE_NONE == "none"
RELATIONSHIP_TYPE_OPTIONAL == "optional"
RELATIONSHIP_TYPE_REQUIRED == "required"
RELATIONSHIP_CHOICES ==
    {RELATIONSHIP_TYPE_NONE, RELATIONSHIP_TYPE_OPTIONAL, RELATIONSHIP_TYPE_REQUIRED}

\* Default of the `required` column of a relationship row created without
\* an explicit value (DocumentTypeMetadataType(document_type, metadata_type)).
DefaultRequired == FALSE

\* The relationship table: for every (document type, metadata type) pair
\* the `required` flags of its rows, in insertion order.
\* get_relationship: the (lazy) queryset of the rows of the form's pair,
\* evaluated against the table each time it is used.
get_relationship(s, p) == s[p]

\* QuerySet.exists()
exists(q) == Len(q) > 0

\* QuerySet.get(): the single row, or the lookup error it raises.
get(q) ==
    IF Len(q) = 1 THEN [exc |-> "None", required |-> q[1]]
    ELSE IF Len(q) = 0 THEN [exc |-> "DoesNotExist", required |-> FALSE]
    ELSE [exc |-> "MultipleObjectsReturned", required |-> FALSE]

\* Result of a routine: the exception that escaped ("None" if it
\* returned), the table afterwards and the persistence calls it made.
Outcome(e, s, c) == [exc |-> e, store |-> s, calls |-> c]

\* get_relationship_type: the state a form shows initially.
get_relationship_type(s, p) ==
    LET relationship == get_relationship(s, p) IN
    IF exists(relationship)
    THEN IF get(relationship).exc # "None"
         THEN [exc |-> get(relationship).exc, type |-> RELATIONSHIP_TYPE_NONE]
         ELSE IF get(relationship).required
              THEN [exc |-> "None", type |-> RELATIONSHIP_TYPE_REQUIRED]
              ELSE [exc |-> "None", type |-> RELATIONSHIP_TYPE_OPTIONAL]
    ELSE [exc |-> "None", type |-> RELATIONSHIP_TYPE_NONE]

\* Mutant: a missing row is skipped instead of looked up.
save_relationship_none_guarded(s, p) ==
    LET relationship == get_relationship(s, p) IN
    IF exists(relationship)
    THEN IF get(relationship).exc # "None"
         THEN Outcome(get(relationship).exc, s, <<>>)
         ELSE Outcome("None", [s EXCEPT ![p] = <<>>], <<"delete">>)
    ELSE Outcome("None", s, <<>>)

\* save_relationship_none: relationship.get().delete(_user)
save_relationship_none(s, p) ==
    LET relationship == get_relationship(s, p) IN
    IF get(relationship).exc # "None"
    THEN Outcome(get(relationship).exc, s, <<>>)
    ELSE Outcome("None", [s EXCEPT ![p] = <<>>], <<"delete">>)

\* Mutant: the existing row is saved with the flag set instead of cleared.
save_relationship_optional_sets_flag(s, p) ==
    LET relationship == get_relationship(s, p) IN
    IF exists(relationship)
    THEN IF get(relationship).exc # "None"
         THEN Outcome(get(relationship).exc, s, <<>>)
         ELSE Outcome("None", [s EXCEPT ![p] = <<TRUE>>], <<"update">>)
    ELSE Outcome("None", [s EXCEPT ![p] = Append(s[p], DefaultRequired)], <<"create">>)

\* save_relationship_optional
save_relationship_optional(s, p) ==
    LET relationship == get_relationship(s, p) IN
    IF exists(relationship)
    THEN IF get(relationship).exc # "None"
         THEN Outcome(get(relationship).exc, s, <<>>)
         ELSE Outcome("None", [s EXCEPT ![p] = <<FALSE>>], <<"update">>)
    ELSE Outcome("None", [s EXCEPT ![p] = Append(s[p], DefaultRequired)], <<"create">>)

\* Mutant: a row is created without asking whether one exists.
save_relationship_required_always_creates(s, p) ==
    Outcome("None", [s EXCEPT ![p] = Append(s[p], TRUE)], <<"create">>)

\* save_relationship_required
save_relationship_required(s, p) ==
    LET relationship == get_relationship(s, p) IN
    IF exists(relationship)
    THEN IF get(relationship).exc # "None"
         THEN Outcome(get(relationship).exc, s, <<>>)
         ELSE Outcome("None", [s EXCEPT ![p] = <<TRUE>>], <<"update">>)
    ELSE Outcome("None", [s EXCEPT ![p] = Append(s[p], TRUE)], <<"create">>)

\* getattr(self, 'save_relationship_{}'.format(relationship_type))
save_relationship(s, p, relationship_type) ==
    CASE relationship_type = RELATIONSHIP_TYPE_NONE -> save_relationship_none(s, p)
      [] relationship_type = RELATIONSHIP_TYPE_OPTIONAL -> save_relationship_optional(s, p)
      [] relationship_type = RELATIONSHIP_TYPE_REQUIRED -> save_relationship_required(s, p)

\* Mutant: the routine is dispatched without comparing with the initial state.
save_without_comparison(s, form, relationship_type) ==
    save_relationship(s, form.pair, relationship_type)

\* Mutant: the comparison is made with the state stored now, not with the
\* state computed when the form was constructed.
save_compares_current(s, form, relationship_type) ==
    IF relationship_type # get_relationship_type(s, form.pair).type
    THEN save_relationship(s, form.pair, relationship_type)
    ELSE Outcome("None", s, <<>>)

\* DocumentTypeMetadataTypeRelationshipForm.save
save(s, form, relationship_type) ==
    IF relationship_type # form.initial_relationship_type
    THEN save_relationship(s, form.pair, relationship_type)
    ELSE Outcome("None", s, <<>>)

\* A form slot: not yet constructed, or constructed over a pair with the
\* initial state computed by __init__.
NoPair == <<"", 0>>
NoForm == [built |-> FALSE, pair |-> NoPair,
           initial_relationship_type |-> RELATIONSHIP_TYPE_NONE]

\* What the last operation did: its arguments, the exception that escaped
\* it, the persistence calls it made and the table before it ran.
NoLast == [op |-> "none", form |-> 0, pair |-> NoPair,
           relationship_type |-> RELATIONSHIP_TYPE_NONE,
           initial_relationship_type |-> RELATIONSHIP_TYPE_NONE,
           exc |-> "None", calls |-> <<>>, before |-> <<>>]

\* DocumentTypeMetadataTypeRelationshipForm.__init__ with 'main_model' in
\* the initial data (the read-only label it also fills in is display text
\* that no other method reads).
RelationshipFormInit(f, p) ==
    LET t == get_relationship_type(store, p) IN
    /\ forms' = IF t.exc # "None" THEN forms
                ELSE [forms EXCEPT ![f] =
                        [built |-> TRUE, pair |-> p,
                         initial_relationship_type |-> t.type]]
    /\ last' = [NoLast EXCEPT !.op = "init", !.form = f, !.pair = p, !.exc = t.exc,
                              !.initial_relationship_type = t.type]
    /\ UNCHANGED <<store, mform, mlast, aform>>

\* A validated form (cleaned_data['relationship_type'] is one of the
\* choices) is saved; the save runs to completion.
RelationshipFormSave(f, relationship_type) ==
    LET r == save(store, forms[f], relationship_type) IN
    /\ forms[f].built
    /\ store' = r.store
    /\ last' = [op |-> "save", form |-> f, pair |-> forms[f].pair,
                relationship_type |-> relationship_type,
                initial_relationship_type |-> forms[f].initial_relationship_type,
                exc |-> r.exc, calls |-> r.calls, before |-> store]
    /\ UNCHANGED <<forms, mform, mlast, aform>>

(* ===================================================================== *)
(* Metadata value form                                                   *)
(* ===================================================================== *)
\* What the external collaborators may give: the values a lookup template
\* evaluates to, the value a default template evaluates to, the values a
\* request may submit (empty, blank, inside and outside the lookup values)
\* and the values the validator/parser pipeline may return.
LookupValues == {"a"}
DefaultValue == "d"
SubmittedValues == {"", " ", "a", "b"}
PipelineResults == {"", "a", "A"}
PipelineOutcomes ==
    {[raises |-> TRUE, result |-> ""]}
        \cup {[raises |-> FALSE, result |-> r] : r \in PipelineResults}
Labels == {"", "Label"}
TemplateStates == {"none", "ok", "raises"}

LookupErrorMessage == "Lookup value error: E"
DefaultErrorMessage == "Default value error: E"

\* The class-level fields: value = CharField(required=False, TextInput),
\* update = BooleanField(initial=True, required=False).
ValueCharField ==
    [type |-> "CharField", required |-> FALSE, choices |-> {},
     initial |-> "None", widget |-> "TextInput"]
UpdateInitial == TRUE

\* forms.ChoiceField(label=...): required defaults to True, no choices.
NewChoiceField ==
    [type |-> "ChoiceField", required |-> TRUE, choices |-> {},
     initial |-> "None", widget |-> "Select"]

\* __init__, the required branch: fields['value'].required.
ValueFieldRequired(field, required) == [field EXCEPT !.required = required]

\* __init__, the required branch: fields['update'].initial.
UpdateInitialFor(required) == IF required THEN UpdateInitial ELSE FALSE

\* __init__: fields['metadata_type_name'].initial, the label (or the name
\* when the label is empty) followed by the "(Required)" marker.
MetadataTypeNameInitial(label, required) ==
    <<IF label # "" THEN label ELSE "name", IF required THEN " (Required)" ELSE "">>

\* __init__, the lookup block: the field is replaced by a choice field
\* first; the choices and the required flag are set only if the lookup
\* template evaluates, otherwise the except branch sets the initial value
\* and the widget of the new field.
ValueFieldLookup(field, lookup, required) ==
    CASE lookup = "none" -> field
      [] lookup = "ok" ->
            [NewChoiceField EXCEPT
                !.choices = LookupValues \cup (IF required THEN {} ELSE {""}),
                !.required = required]
      [] lookup = "raises" ->
            [NewChoiceField EXCEPT
                !.initial = LookupErrorMessage,
                !.widget = "ReadonlyTextInput"]

\* __init__, the default block.
ValueFieldDefault(field, default) ==
    CASE default = "none" -> field
      [] default = "ok" -> [field EXCEPT !.initial = DefaultValue]
      [] default = "raises" ->
            [field EXCEPT !.initial = DefaultErrorMessage,
                          !.widget = "ReadonlyTextInput"]

\* DocumentMetadataForm.__init__: without 'initial' in kwargs the class
\* level fields are kept and no metadata type is attached.
DocumentMetadataFormInit(with_initial, label, required, lookup, default) ==
    IF with_initial
    THEN [built |-> TRUE, has_metadata_type |-> TRUE, label |-> label,
          required |-> required, lookup |-> lookup, default |-> default,
          value |-> ValueFieldDefault(
                        ValueFieldLookup(ValueFieldRequired(ValueCharField, required),
                                         lookup, required),
                        default),
          update_initial |-> UpdateInitialFor(required),
          metadata_type_name_initial |-> MetadataTypeNameInitial(label, required)]
    ELSE [built |-> TRUE, has_metadata_type |-> FALSE, label |-> "",
          required |-> FALSE, lookup |-> "none", default |-> "none",
          value |-> ValueCharField,
          update_initial |-> UpdateInitial,
          metadata_type_name_initial |-> <<"", "">>]

NoMetadataForm ==
    [built |-> FALSE, has_metadata_type |-> FALSE, label |-> "",
     required |-> FALSE, lookup |-> "none", default |-> "none",
     value |-> ValueCharField, update_initial |-> UpdateInitial,
     metadata_type_name_initial |-> <<"", "">>]

\* CharField.to_python strips the submitted text.
strip(v) == IF v = " " THEN "" ELSE v

\* Field.clean of the value field: the cleaned value, or the field error.
\* A CharField strips and checks required; a ChoiceField does not strip,
\* checks required and then membership in its choices for non-empty values.
CleanValueField(field, v) ==
    LET c == IF field.type = "CharField" THEN strip(v) ELSE v IN
    IF c = "" /\ field.required
    THEN [error |-> "required", value |-> ""]
    ELSE IF field.type = "ChoiceField" /\ c # "" /\ c \notin field.choices
    THEN [error |-> "invalid_choice", value |-> ""]
    ELSE [error |-> "None", value |-> c]

\* The framework's _clean_fields: a field that fails leaves no entry in
\* cleaned_data; the update checkbox always cleans to a boolean.
CleanFields(form, v, u) ==
    LET r == CleanValueField(form.value, v) IN
    [field_error |-> r.error, has_value |-> r.error = "None",
     value |-> r.value, update |-> u]

\* DocumentMetadataForm.clean on the cleaned_data cd: the required check
\* subscripts cleaned_data['value'] before it looks at the update toggle,
\* then the pipeline runs on cleaned_data.get('value') if update is set.
clean(form, cd, required, pipeline) ==
    LET checked == form.has_metadata_type /\ required
        arg == IF cd.has_value THEN cd.value ELSE "None"
        none == [exc |-> "None", form_error |-> "None", pipeline_invoked |-> FALSE,
                 pipeline_arg |-> "None", has_value |-> cd.has_value,
                 value |-> cd.value]
    IN
    IF checked /\ ~cd.has_value
    THEN [none EXCEPT !.exc = "KeyError"]
    ELSE IF checked /\ cd.value = "" /\ ~cd.update
    THEN [none EXCEPT !.form_error = "required"]
    ELSE IF cd.update /\ form.has_metadata_type
    THEN IF pipeline.raises
         THEN [none EXCEPT !.form_error = "pipeline", !.pipeline_invoked = TRUE,
                           !.pipeline_arg = arg]
         ELSE [none EXCEPT !.pipeline_invoked = TRUE, !.pipeline_arg = arg,
                           !.has_value = TRUE, !.value = pipeline.result]
    ELSE none

NoClean ==
    [op |-> "none", value |-> "", update |-> FALSE, required |-> FALSE,
     pipeline |-> [raises |-> FALSE, result |-> ""],
     field_error |-> "None", field_value |-> "", exc |-> "None",
     form_error |-> "None", pipeline_invoked |-> FALSE, pipeline_arg |-> "None",
     has_value |-> FALSE, cleaned_value |-> "", is_valid |-> FALSE]

\* The framework's full_clean of a bound form: the fields are cleaned, then
\* clean() runs whatever the field errors; a ValidationError it raises
\* becomes a form error, any other exception escapes.
full_clean(form, v, u, required, pipeline) ==
    LET cd == CleanFields(form, v, u)
        r == clean(form, cd, required, pipeline)
    IN
    [op |-> "clean", value |-> v, update |-> u, required |-> required,
     pipeline |-> pipeline,
     field_error |-> cd.field_error, field_value |-> cd.value, exc |-> r.exc,
     form_error |-> r.form_error, pipeline_invoked |-> r.pipeline_invoked,
     pipeline_arg |-> r.pipeline_arg, has_value |-> r.has_value,
     cleaned_value |-> r.value,
     is_valid |-> r.exc = "None" /\ cd.field_error = "None" /\ r.form_error = "None"]

\* A metadata value form is constructed for a metadata type; whether the
\* type is required for the document type and what its templates evaluate
\* to are answers of the collaborators.
MetadataFormInit(with_initial, label, required, lookup, default) ==
    /\ mform' = DocumentMetadataFormInit(with_initial, label, required, lookup, default)
    /\ mlast' = NoClean
    /\ UNCHANGED <<store, forms, last, aform>>

\* The constructed form is validated against a submission; the required
\* state is asked again and the pipeline answers if it is invoked.
MetadataFormClean(v, u, required, pipeline) ==
    /\ mform.built
    /\ mlast' = full_clean(mform, v, u, required, pipeline)
    /\ UNCHANGED <<store, forms, last, mform, aform>>

(* ===================================================================== *)
(* Bulk add form                                                         *)
(* ===================================================================== *)
NoDocumentType == "None"
NoQueryset == [supplied |-> FALSE, queryset |-> {}]
QuerysetArguments ==
    {NoQueryset} \cup {[supplied |-> TRUE, queryset |-> q] : q \in SUBSET MetadataTypes}

\* MetadataType.objects.get_for_document_type: the metadata types that
\* have a relationship row with the document type.
get_for_document_type(s, document_type) ==
    {mt \in MetadataTypes : s[<<document_type, mt>>] # <<>>}

\* DocumentMetadataAddForm.__init__: 'document_type' is popped from the
\* keyword arguments; 'queryset' is popped only when a document type was
\* given, so without one it reaches forms.Form.__init__, which accepts no
\* such keyword.
DocumentMetadataAddFormInit(s, document_type, queryset_argument) ==
    IF document_type # NoDocumentType
    THEN [exc |-> "None",
          queryset |-> IF queryset_argument.supplied
                       THEN queryset_argument.queryset
                       ELSE get_for_document_type(s, document_type)]
    ELSE IF queryset_argument.supplied
    THEN [exc |-> "TypeError", queryset |-> {}]
    ELSE [exc |-> "None", queryset |-> {}]

\* ModelMultipleChoiceField.clean: the selection is required and every
\* selected metadata type has to be in the field's queryset.
CleanMetadataType(queryset, selection) ==
    IF selection = {} THEN "required"
    ELSE IF ~(selection \subseteq queryset) THEN "invalid_choice"
    ELSE "None"

NoAddForm ==
    [op |-> "none", built |-> FALSE, document_type |-> NoDocumentType, argument |-> NoQueryset,
     exc |-> "None", queryset |-> {}, cleaned |-> FALSE, selection |-> {},
     field_error |-> "None"]

\* A bulk add form is constructed; a construction that raises leaves no form.
AddFormInit(document_type, queryset_argument) ==
    LET r == DocumentMetadataAddFormInit(store, document_type, queryset_argument) IN
    /\ aform' = [NoAddForm EXCEPT !.op = "init", !.built = r.exc = "None",
                                 !.document_type = document_type,
                                 !.argument = queryset_argument,
                                 !.exc = r.exc, !.queryset = r.queryset]
    /\ UNCHANGED <<store, forms, last, mform, mlast>>

\* The constructed form is validated against a submitted selection.
AddFormClean(selection) ==
    /\ aform.built
    /\ aform' = [aform EXCEPT !.cleaned = TRUE, !.selection = selection,
                              !.field_error = CleanMetadataType(aform.queryset, selection)]
    /\ UNCHANGED <<store, forms, last, mform, mlast>>

(* ===================================================================== *)
(* Specifications                                                        *)
(* ===================================================================== *)
\* The table starts with at most one row per pair.
InitStore == store \in [Pairs -> {<<>>, <<FALSE>>, <<TRUE>>}]

\* Relationship forms constructed and saved in any order, each operation
\* running to completion.
Init ==
    /\ InitStore
    /\ forms = [f \in Forms |-> NoForm]
    /\ last = NoLast
    /\ mform = NoMetadataForm
    /\ mlast = NoClean
    /\ aform = NoAddForm

Next ==
    \/ \E f \in Forms, p \in Pairs : RelationshipFormInit(f, p)
    \/ \E f \in Forms, t \in RELATIONSHIP_CHOICES : RelationshipFormSave(f, t)

Spec == Init /\ [][Next]_vars

\* Metadata value forms constructed and validated.
InitValue ==
    /\ store = [p \in Pairs |-> <<>>]
    /\ forms = [f \in Forms |-> NoForm]
    /\ last = NoLast
    /\ mform = NoMetadataForm
    /\ mlast = NoClean
    /\ aform = NoAddForm

NextValue ==
    \/ \E with_initial \in BOOLEAN, label \in Labels, required \in BOOLEAN,
          lookup \in TemplateStates, default \in TemplateStates :
          MetadataFormInit(with_initial, label, required, lookup, default)
    \/ \E v \in SubmittedValues, u \in BOOLEAN, required \in BOOLEAN,
          pipeline \in PipelineOutcomes :
          MetadataFormClean(v, u, required, pipeline)

SpecValue == InitValue /\ [][NextValue]_vars

\* Bulk add forms constructed and validated over any relationship table.
InitAdd ==
    /\ InitStore
    /\ forms = [f \in Forms |-> NoForm]
    /\ last = NoLast
    /\ mform = NoMetadataForm
    /\ mlast = NoClean
    /\ aform = NoAddForm

NextAdd ==
    \/ \E document_type \in DocumentTypes \cup {NoDocumentType},
          queryset_argument \in QuerysetArguments :
          AddFormInit(document_type, queryset_argument)
    \/ \E selection \in SUBSET MetadataTypes : AddFormClean(selection)

SpecAdd == InitAdd /\ [][NextAdd]_vars

(* ===================================================================== *)
(* Claims about the relationship form                                    *)
(* ===================================================================== *)
\* The rows a pair has when its relationship is in state t.
RowsOf(t) ==
    CASE t = RELATIONSHIP_TYPE_NONE -> <<>>
      [] t = RELATIONSHIP_TYPE_OPTIONAL -> <<FALSE>>
      [] t = RELATIONSHIP_TYPE_REQUIRED -> <<TRUE>>

Saved == last.op = "save"
Returned == last.exc = "None"
Chosen == last.relationship_type
Initial == last.initial_relationship_type
OtherPairsUnchanged == \A q \in Pairs \ {last.pair} : store[q] = last.before[q]

\* C1: a save whose chosen state equals the initial state the form computed
\* at construction makes no persistence call (no create, update or delete)
\* and leaves every row of the table, with its required flag, as it was.
C1_EqualInitialIsNoOp ==
    (Saved /\ Chosen = Initial) =>
        /\ last.calls = <<>>
        /\ store = last.before
        /\ Returned

\* The form was saved with its initial state while the table held rows.
C1_Witness ==
    /\ Saved /\ Chosen = Initial
    /\ Chosen = RELATIONSHIP_TYPE_REQUIRED
    /\ last.before[last.pair] # <<>>

\* C2: a save whose chosen state differs from the initial state and that
\* returns leaves exactly the chosen state for the form's pair: no row for
\* 'none' (one delete), one row with required=false for 'optional', one row
\* with required=true for 'required'; the row is created only if none
\* existed at save time and otherwise changed in place; the rows of every
\* other pair are unchanged.
C2_SaveStoresChosenState ==
    (Saved /\ Chosen # Initial /\ Returned) =>
        /\ store[last.pair] = RowsOf(Chosen)
        /\ OtherPairsUnchanged
        /\ last.calls =
              IF Chosen = RELATIONSHIP_TYPE_NONE THEN <<"delete">>
              ELSE IF last.before[last.pair] = <<>> THEN <<"create">>
              ELSE <<"update">>

\* An existing required row was changed in place to optional while another
\* pair had a row.
C2_Witness ==
    /\ Saved /\ Chosen # Initial /\ Returned
    /\ Chosen = RELATIONSHIP_TYPE_OPTIONAL
    /\ last.before[last.pair] = <<TRUE>>
    /\ \E q \in Pairs \ {last.pair} : store[q] # <<>>

\* C3: a save with chosen state 'none' that differs from the initial state,
\* made when the pair has no row, fails with the lookup error of get()
\* and leaves the table unchanged.
C3_NoneWithoutRowFails ==
    (/\ Saved /\ Chosen = RELATIONSHIP_TYPE_NONE /\ Chosen # Initial
     /\ last.before[last.pair] = <<>>) =>
        /\ last.exc = "DoesNotExist"
        /\ store = last.before
        /\ last.calls = <<>>

\* 'none' was saved by a form built while the row existed, after another
\* form had deleted the row.
C3_Witness ==
    /\ Saved /\ Chosen = RELATIONSHIP_TYPE_NONE /\ Chosen # Initial
    /\ last.before[last.pair] = <<>>

\* C4: from a table with at most one row per pair, any sequence of form
\* constructions and completed saves leaves at most one row per pair.
C4_AtMostOneRowPerPair == \A p \in Pairs : Len(store[p]) <= 1

\* A form built while its pair had no row saved 'optional' or 'required'
\* after another form had created the row.
C4_Witness ==
    /\ Saved /\ Returned
    /\ Initial = RELATIONSHIP_TYPE_NONE /\ Chosen # RELATIONSHIP_TYPE_NONE
    /\ last.before[last.pair] # <<>>

\* C10 (as claimed): after every save that returns, the stored relationship
\* of the form's pair is the state the form chose.
C10_SaveAlwaysStoresChosen ==
    (Saved /\ Returned) => store[last.pair] = RowsOf(Chosen)

\* C10 (amended): after a save that returns, the stored relationship of the
\* form's pair is the chosen state whenever the chosen state differs from
\* the form's initial state or the pair still had its initial state at save
\* time; when the chosen state equals an initial state that is out of date
\* the table keeps what it held at save time.
C10_SaveStoresChosenUnlessStale ==
    (Saved /\ Returned) =>
        IF Chosen # Initial \/ last.before[last.pair] = RowsOf(Initial)
        THEN store[last.pair] = RowsOf(Chosen)
        ELSE store = last.before /\ store[last.pair] # RowsOf(Chosen)

\* Two forms over one pair were built before either saved; the second save
\* chose its own, now out of date, initial state.
C10_Witness ==
    /\ Saved /\ Returned /\ Chosen = Initial
    /\ last.before[last.pair] # RowsOf(Initial)
    /\ \E g \in Forms \ {last.form} :
          forms[g].built /\ forms[g].pair = last.pair

(* ===================================================================== *)
(* Claims about the metadata value form                                  *)
(* ===================================================================== *)
Cleaned == mlast.op = "clean"

\* C5: for a metadata type that is required for the document type, a
\* submission with no value and the update toggle unset always fails
\* validation with the required-field ValidationError of clean(), and no
\* other kind of failure occurs.
C5_RequiredMissingFailsWithRequiredError ==
    (/\ Cleaned /\ mform.has_metadata_type
     /\ mform.required /\ mlast.required
     /\ mlast.value = "" /\ ~mlast.update) =>
        /\ mlast.exc = "None"
        /\ mlast.form_error = "required"
        /\ ~mlast.is_valid

\* C6: for a metadata type that is not required for the document type the
\* update toggle's initial value is unset, and a submission with a missing
\* value never fails validation, whatever the submitted update toggle and
\* whatever the validator/parser pipeline does.
C6_NotRequiredMissingNeverFails ==
    (mform.built /\ mform.has_metadata_type /\ ~mform.required) =>
        /\ mform.update_initial = FALSE
        /\ (Cleaned /\ ~mlast.required /\ mlast.value = "") => mlast.is_valid

\* C7: for every metadata type whose lookup template evaluation raises,
\* with or without a default template and required or not, the form is
\* constructed, its value field is a read-only text field and the field's
\* initial value is the lookup error message.
C7_LookupErrorShownReadOnly ==
    (mform.has_metadata_type /\ mform.lookup = "raises") =>
        /\ mform.built
        /\ mform.value.widget = "ReadonlyTextInput"
        /\ mform.value.initial = LookupErrorMessage

\* C9: clean invokes the validator/parser pipeline exactly when the
\* submitted update toggle is set and the form has a metadata type; when
\* invoked, the cleaned value becomes the pipeline's result and a pipeline
\* failure fails validation; when the toggle is unset the cleaned value is
\* left as the value field cleaned it.
C9_PipelineRunsIffUpdateSet ==
    Cleaned =>
        /\ mlast.pipeline_invoked <=> (mlast.update /\ mform.has_metadata_type)
        /\ (mlast.pipeline_invoked /\ ~mlast.pipeline.raises) =>
              (mlast.has_value /\ mlast.cleaned_value = mlast.pipeline.result)
        /\ (mlast.pipeline_invoked /\ mlast.pipeline.raises) => ~mlast.is_valid
        /\ (~mlast.update /\ mlast.field_error = "None") =>
              (mlast.has_value /\ mlast.cleaned_value = mlast.field_value)

(* ===================================================================== *)
(* Claims about the bulk add form                                        *)
(* ===================================================================== *)
\* C8: a bulk add form constructed with no document type is constructed
\* successfully with an empty selectable set, whatever the other arguments
\* (a caller-supplied queryset included), so every non-empty submitted
\* selection fails validation.
C8_NoDocumentTypeGivesEmptySet ==
    (aform.op = "init" /\ aform.document_type = NoDocumentType) =>
        /\ aform.exc = "None"
        /\ aform.built
        /\ aform.queryset = {}
        /\ (aform.cleaned /\ aform.selection # {}) => aform.field_error # "None"

====
